---- MODULE Spec2Model ----
(***************************************************************************)
(* Model of the hyt development-session orchestrator.                      *)
(*                                                                         *)
(*   Process Supervisor : utils/server.ts, current revision in             *)
(*                        src/unnamed/part_001 (launchHytaleServer,        *)
(*                        stopHytaleServer, restartHytaleServer)           *)
(*   Session Controller : src/src/commands/dev.ts, current revision at     *)
(*                        lines 215-446 (devCommand, onFileChange, the     *)
(*                        debounce timer callback, cleanup)                *)
(*                                                                         *)
(* Node runs one handler to completion before the next is dispatched, so   *)
(* every action below is one macrotask together with the promise           *)
(* continuations (microtasks) it releases.                                 *)
(***************************************************************************)
EXTENDS Integers, Sequences, FiniteSets, TLC

(***************************************************************************)
(* Bounds of the model.                                                    *)
(***************************************************************************)
MaxProcs == 2
MaxStops == 3
MaxRestarts == 1
MaxDebounce == 2
MaxTimers == 2
MaxConcurrent == 2
MaxSignals == 2
MaxFiles == 2
MaxMtime == 2
MaxRedirectBudget == 3
MaxRequests == 12

ProcIds == 1..MaxProcs
NoProc == 0

VARIABLES
    serverProcess,  \* module variable serverProcess: NoProc (null) or a process id
    procState,      \* per process: "unborn", "alive" or "exited"
    procKilled,     \* per process: the subprocess's `killed` flag
    procStdio,      \* per process: the stdio option it was spawned with
    procSignals,    \* per process: the signals sent to it, in order
    procStdin,      \* per process: the texts written to its input stream
    stops,          \* the invocations of stopHytaleServer, in call order
    restarts        \* the invocations of restartHytaleServer, in call order

supVars == <<serverProcess, procState, procKilled, procStdio, procSignals,
             procStdin, stops, restarts>>

VARIABLES
    opts,           \* command-line options of `hyt dev`, fixed for the session
    pc,             \* position of the devCommand action body
    exitCode,       \* NotExited, or the status passed to process.exit
    watcher,        \* module variable watcher: TRUE while it holds a handle
    watching,       \* the file watcher itself: "none", "active", "closing", "closed"
    isRebuilding,   \* module variable isRebuilding
    rebuildTimeout, \* module variable rebuildTimeout: NoTimer (null) or a timer id
    timers,         \* per timer id: seconds left until it fires, or Dead
    building,       \* rebuild sequences awaiting runGradleBuild
    publishing,     \* rebuild sequences awaiting copyJarToMods
    cleanups,       \* the invocations of the cleanup signal handler, in order
    sinceLast,      \* history: seconds since the last accepted change event
    sinceFirst,     \* history: seconds since the first accepted event of the burst
    burstLen,       \* history: accepted events since the last rebuild began
    firedInBurst,   \* history: rebuilds begun since the last accepted event
    lastStart,      \* history: the three values above when the last rebuild began
    pendingDrop,    \* history: an event was dropped and none accepted since
    startup,        \* history: how the pre-checks, initial build, initial
                    \* publish and launch of devCommand ended
    lastRebuild     \* history: how the last watch-triggered rebuild ended

sesVars == <<opts, pc, exitCode, watcher, watching, isRebuilding, rebuildTimeout,
             timers, building, publishing, cleanups, sinceLast, sinceFirst,
             burstLen, firedInBurst, lastStart, pendingDrop,
             startup, lastRebuild>>

VARIABLES
    buildDir,       \* the build output directory: its files in readdir order,
                    \* each with its name and modification time
    modsDir,        \* the mods directory: the files it holds
    modsFolder,     \* the mods directory exists
    pubOut          \* how the last publication ended, what it selected and the
                    \* mods directory it found; in `call`, the same for the
                    \* publication that has not returned yet

VARIABLES
    download        \* one downloadFile call with its chain of recursive calls:
                    \* what each URL answers, the URL and the maxRedirects
                    \* of the current call, the maxRedirects the caller
                    \* gave, the requests issued, and how the promise stands

dlVars == <<download>>

\* what lies outside the session: the publisher's directories and the download
pubVars == <<buildDir, modsDir, modsFolder, pubOut, dlVars>>

vars == <<supVars, sesVars, pubVars>>

----------------------------------------------------------------------------
(***************************************************************************)
(* Process Supervisor                                                      *)
(***************************************************************************)

\* options passed to execa by launchHytaleServer
LaunchStdio == "inherit"
RejectOnFailure == FALSE

\* subprocess.stdin is a stream only for a piped input; it is null when the
\* child inherits the parent's input.
HasStdin(stdio) == stdio = "pipe"

StopCommand == "stop\n"

\* `if (serverProcess.stdin) serverProcess.stdin.write('stop\n')`
StdinAfterStop(h) ==
    IF HasStdin(procStdio[h])
    THEN [procStdin EXCEPT ![h] = Append(@, StopCommand)]
    ELSE procStdin

\* guard of both kill calls: `serverProcess && !serverProcess.killed`
CanSignal(h, killed) == h /= NoProc /\ ~killed[h]

\* the process spawned by the next execa call
NextProc == CHOOSE p \in ProcIds : procState[p] = "unborn" /\
                \A q \in ProcIds : procState[q] = "unborn" => p <= q

CanSpawn == \E p \in ProcIds : procState[p] = "unborn"

Alive == {p \in ProcIds : procState[p] = "alive"}

\* the invocation record of a stopHytaleServer call that found a handle:
\* suspended at `await serverProcess`, its grace-period timer armed
NewStop(caller) ==
    [proc |-> serverProcess, pc |-> "await", timer |-> "armed",
     caller |-> caller, sent |-> <<>>, handleAtEnd |-> NoProc]

\* a stopHytaleServer that arms its grace-period timer before testing the
\* handle
NoopStopArmed(caller) ==
    [proc |-> NoProc, pc |-> "done", timer |-> "armed",
     caller |-> caller, sent |-> <<>>, handleAtEnd |-> NoProc]

\* a stopHytaleServer call that found no handle returns at once
NoopStop(caller) ==
    [proc |-> NoProc, pc |-> "done", timer |-> "none",
     caller |-> caller, sent |-> <<>>, handleAtEnd |-> NoProc]

\* the early return also taken for a handle that was already signalled
StopIsNoopOrKilled(h) == h = NoProc \/ procKilled[h]

\* `if (!serverProcess) return;`
StopIsNoop(h) == h = NoProc

\* `serverProcess = null` at the end of stopHytaleServer's try and catch
ClearedHandle == NoProc

\* stopHytaleServer resuming without clearTimeout(timeout)
TimerLeftArmed(t) == t

\* clearTimeout(timeout): a timer still armed is cancelled, one that has
\* fired stays fired
ClearTimer(t) == IF t = "armed" THEN "cleared" ELSE t

\* the synchronous part of one stopHytaleServer call, up to its first await
StopsAfterCall(caller) ==
    Append(stops, IF StopIsNoop(serverProcess)
                  THEN [NoopStop(caller) EXCEPT !.handleAtEnd = serverProcess]
                  ELSE NewStop(caller))

StdinAfterCall ==
    IF StopIsNoop(serverProcess) THEN procStdin ELSE StdinAfterStop(serverProcess)

\* kill(sig) on process h: the signal is delivered, and `killed` set, only
\* while the process exists
Deliver(sigs, h, sig) ==
    IF h /= NoProc /\ procState[h] = "alive"
    THEN [sigs EXCEPT ![h] = Append(@, sig)] ELSE sigs

MarkKilled(killed, h) ==
    IF h /= NoProc /\ procState[h] = "alive"
    THEN [killed EXCEPT ![h] = TRUE] ELSE killed

\* launchHytaleServer: an existing handle is stopped without awaiting the
\* stop, then the new process is spawned and becomes the handle. When the
\* executable cannot be spawned execa still returns a subprocess, whose
\* promise settles later: the handle is set and no process runs.
LaunchEffect(spawnOk) ==
    LET p == NextProc IN
    /\ CanSpawn
    /\ serverProcess /= NoProc => Len(stops) < MaxStops
    /\ stops' = IF serverProcess /= NoProc THEN StopsAfterCall("launch") ELSE stops
    /\ procStdin' = IF serverProcess /= NoProc THEN StdinAfterCall ELSE procStdin
    /\ serverProcess' = p
    /\ procState' = [procState EXCEPT ![p] = IF spawnOk THEN "alive" ELSE "failing"]
    /\ procStdio' = [procStdio EXCEPT ![p] = LaunchStdio]
    /\ UNCHANGED <<procKilled, procSignals>>

\* launchHytaleServer throwing: something inside its try block throws (the
\* spread of jvmArgs, execa rejecting its arguments) after an existing
\* handle was stopped without awaiting; the catch rethrows a HytaleError, no
\* process is created and the handle is as it was
LaunchThrowEffect ==
    /\ serverProcess /= NoProc => Len(stops) < MaxStops
    /\ stops' = IF serverProcess /= NoProc THEN StopsAfterCall("launch") ELSE stops
    /\ procStdin' = IF serverProcess /= NoProc THEN StdinAfterCall ELSE procStdin
    /\ UNCHANGED <<serverProcess, procState, procKilled, procStdio, procSignals>>

\* stopHytaleServer called from outside the supervisor
StopEffect(caller) ==
    /\ Len(stops) < MaxStops
    /\ stops' = StopsAfterCall(caller)
    /\ procStdin' = StdinAfterCall
    /\ UNCHANGED <<serverProcess, procState, procKilled, procStdio, procSignals>>

\* the grace-period timer of stop invocation i fires (setTimeout callback):
\* kill('SIGTERM') on whatever the handle is now. The signal is sent at once;
\* the forced kill execa schedules with it is ForceKillFire. All grace
\* timers have the same delay, so they fire in the order they were armed.
GraceTimerFire(i) ==
    LET h == serverProcess
        send == CanSignal(h, procKilled) IN
    /\ stops[i].timer = "armed"
    /\ \A j \in 1..(i - 1) : stops[j].timer /= "armed"
    /\ procSignals' = IF send THEN Deliver(procSignals, h, "SIGTERM") ELSE procSignals
    /\ procKilled' = IF send THEN MarkKilled(procKilled, h) ELSE procKilled
    /\ stops' = [stops EXCEPT ![i].timer = "fired",
                              ![i].sent = IF send /\ procState[h] = "alive"
                                          THEN Append(@, <<"SIGTERM", h>>) ELSE @]
    /\ UNCHANGED <<serverProcess, procState, procStdio, procStdin, restarts>>

\* process p has been sent signal sig
Received(p, sig) == \E k \in DOMAIN procSignals[p] : procSignals[p][k] = sig

\* a subprocess.kill('SIGTERM') that schedules nothing further
ForceKillNever(p) == FALSE

\* `serverProcess.kill('SIGTERM')` on an execa subprocess: by execa's
\* default (forceKillAfterDelay, 5 s) a subprocess that was sent SIGTERM and
\* has not exited when the delay is over is sent SIGKILL
ForceKillDue(p) ==
    /\ Received(p, "SIGTERM")
    /\ ~Received(p, "SIGKILL")
    /\ procState[p] = "alive"

\* the forced kill that follows the kill('SIGTERM') of a grace-period timer
ForceKillFire(p) ==
    /\ ForceKillDue(p)
    /\ procSignals' = [procSignals EXCEPT ![p] = Append(@, "SIGKILL")]
    /\ stops' = [i \in DOMAIN stops |->
                    IF \E k \in DOMAIN stops[i].sent :
                           stops[i].sent[k] = <<"SIGTERM", p>>
                    THEN [stops[i] EXCEPT !.sent = Append(@, <<"SIGKILL", p>>)]
                    ELSE stops[i]]
    /\ UNCHANGED <<serverProcess, procState, procKilled, procStdio, procStdin,
                   restarts>>

\* exit handlers that only log and leave the handle as it is
HandleKept == serverProcess

\* `serverProcess = null` in the then/catch handlers launchHytaleServer
\* attaches to the subprocess promise
HandleAfterExit == NoProc

\* isServerRunning: `serverProcess !== null && !serverProcess.killed`
isServerRunning == serverProcess /= NoProc /\ ~procKilled[serverProcess]

\* the stop invocations suspended at `await serverProcess` on process p
Awaiting(p) == {i \in DOMAIN stops : stops[i].pc = "await" /\ stops[i].proc = p}

\* restartHytaleServer after its `await stopHytaleServer()`: it starts the
\* 2000 ms delay
RestartsAfterStops(done) ==
    [r \in DOMAIN restarts |->
        IF restarts[r].pc = "await_stop" /\ restarts[r].stop \in done
        THEN [restarts[r] EXCEPT !.pc = "delay"] ELSE restarts[r]]

\* Process p exits and its promise settles. A process may exit at any time:
\* on its own, on a signal it does not ignore, or because something outside
\* this code ends it; nothing here obliges it to. The reactions run in the order
\* they were attached: the then-handler of launchHytaleServer, then every stop
\* awaiting p. On a rejection the then-handler passes it on, the awaiting
\* stops run their catch block, and the catch-handler of launchHytaleServer
\* runs last.
ProcExitEffect(p, failed) ==
    LET rejected == RejectOnFailure /\ failed
        done == Awaiting(p)
        first == CHOOSE i \in done : \A j \in done : i <= j
        h == serverProcess
        kills == rejected /\ CanSignal(h, procKilled) /\ h /= p
                 /\ procState[h] = "alive" IN
    /\ procState[p] \in {"alive", "failing"}
    /\ procState' = [procState EXCEPT ![p] = "exited"]
    /\ serverProcess' = IF rejected \/ done = {} THEN HandleAfterExit ELSE ClearedHandle
    /\ procSignals' = IF kills /\ done /= {} THEN Deliver(procSignals, h, "SIGKILL")
                      ELSE procSignals
    /\ procKilled' = IF kills /\ done /= {} THEN MarkKilled(procKilled, h)
                     ELSE procKilled
    /\ stops' = [i \in DOMAIN stops |->
                    IF i \in done
                    THEN [stops[i] EXCEPT
                            !.pc = "done",
                            !.timer = IF rejected THEN @ ELSE ClearTimer(@),
                            !.handleAtEnd = ClearedHandle,
                            !.sent = IF kills /\ i = first
                                     THEN Append(@, <<"SIGKILL", h>>) ELSE @]
                    ELSE stops[i]]
    /\ restarts' = RestartsAfterStops(done)
    /\ UNCHANGED <<procStdio, procStdin>>

----------------------------------------------------------------------------
(***************************************************************************)
(* Artifact Publisher: copyJarToMods                                       *)
(*                                                                         *)
(* A file name is a sequence of tokens, so that endsWith and includes are  *)
(* computed on the name; a directory is the sequence fs.readdir returns,   *)
(* in whatever order the file system lists it.                             *)
(***************************************************************************)

Stems == {"a", "b"}
FileNames == {<<s>> \o mid \o <<x>> :
                s \in Stems, mid \in {<<>>, <<"-sources">>}, x \in {".jar", ".pom"}}
Files == [name : FileNames, mtime : 1..MaxMtime]

\* the directories of at most MaxFiles files, no name twice, in any order
Listings ==
    {l \in UNION {[1..n -> Files] : n \in 0..MaxFiles} :
        \A i, j \in DOMAIN l : l[i].name = l[j].name => i = j}

\* f.endsWith(suffix)
EndsWith(f, suffix) == Len(f) > 0 /\ f[Len(f)] = suffix

\* f.includes(part)
Includes(f, part) == \E k \in DOMAIN f : f[k] = part

\* the predicate of `files.find` accepting every .jar file
IsAnyJar(f) == EndsWith(f, ".jar")

\* `f.endsWith('.jar') && !f.includes('-sources')`
IsArtifact(f) == EndsWith(f, ".jar") /\ ~Includes(f, "-sources")

\* `files.find(...)`: the position of the first file of the listing that
\* passes, 0 when none does
Find(files) ==
    LET hits == {k \in DOMAIN files : IsArtifact(files[k].name)} IN
    IF hits = {} THEN 0 ELSE CHOOSE k \in hits : \A h \in hits : k <= h

NoFile == [name |-> <<>>, mtime |-> 0]

\* fs.copyFile(srcPath, destPath): the destination of that name is replaced
CopyFile(dir, f) == {g \in dir : g.name /= f.name} \cup {f}

\* a failed fs.copyFile that had opened its destination: the file of that
\* name is gone from the directory
RemoveFile(dir, f) == {g \in dir : g.name /= f.name}

\* no publication is under way
NoCall == [phase |-> "none", selected |-> NoFile, modsBefore |-> {}]

\* copyJarToMods will resolve: the folder is there, an artifact was found
\* and every file operation on it went through
CopySucceeds(made, copyOk) ==
    (modsFolder \/ made) /\ Find(buildDir) /= 0 /\ copyOk

\* copyJarToMods from fs.mkdir to the end of fs.copyFile: the folder is made
\* if it was missing (when that fails nothing else is tried); the first
\* listed artifact is copied; with none nothing is touched; when a file
\* operation fails the destination is as it was or, if fs.copyFile failed
\* after opening it, removed.  The call has not returned yet.
CopyEffect(made, copyOk, lost) ==
    LET folder == modsFolder \/ made
        k == IF folder THEN Find(buildDir) ELSE 0 IN
    /\ modsFolder' = folder
    /\ modsDir' = IF k = 0 THEN modsDir
                  ELSE IF copyOk THEN CopyFile(modsDir, buildDir[k])
                  ELSE IF lost THEN RemoveFile(modsDir, buildDir[k])
                  ELSE modsDir
    /\ pubOut' = [pubOut EXCEPT !.call =
                     [phase |-> IF CopySucceeds(made, copyOk)
                                THEN "copied" ELSE "failed",
                      selected |-> IF k = 0 THEN NoFile ELSE buildDir[k],
                      modsBefore |-> modsDir]]
    /\ UNCHANGED <<buildDir, dlVars>>

\* the suspended copyJarToMods call is about to resolve
CallSucceeded == pubOut.call.phase = "copied"

\* copyJarToMods settles, in a later turn of the event loop than its file
\* operations: it resolves, or it throws a GradleError
CopyReturn ==
    /\ pubOut' = [result |-> IF CallSucceeded THEN "ok" ELSE "error",
                  selected |-> pubOut.call.selected,
                  modsBefore |-> pubOut.call.modsBefore,
                  call |-> NoCall]
    /\ UNCHANGED <<buildDir, modsDir, modsFolder, dlVars>>

\* the artifact a successful Gradle build leaves in the build output
\* directory: the project's jar, as new as any file of the listing
BuiltJar ==
    LET name == <<"a", ".jar">> IN
    [name |-> name,
     mtime |-> MaxMtime]

\* the build output directory after a successful build: the jar replaces
\* the entry of its name or is added to the listing
BuildOutput(dir) ==
    IF \E k \in DOMAIN dir : dir[k].name = BuiltJar.name
    THEN [k \in DOMAIN dir |->
            IF dir[k].name = BuiltJar.name THEN BuiltJar ELSE dir[k]]
    ELSE Append(dir, BuiltJar)

\* what a build that exits with code 0 leaves in the build output
\* directory: a forced build writes the jar; an unforced one may leave the
\* directory as it found it
BuildOutputs(dir, force) ==
    IF force THEN {BuildOutput(dir)} ELSE {BuildOutput(dir), dir}

\* one copyJarToMods(projectDir, modsDir) call on its own: its file
\* operations
CopyJarToModsCopy ==
    \E made \in BOOLEAN, copyOk \in BOOLEAN, lost \in BOOLEAN :
        /\ pc = "start"
        /\ pubOut.result = "none"
        /\ pubOut.call = NoCall
        /\ CopyEffect(made, copyOk, lost)
        /\ UNCHANGED <<supVars, sesVars>>

\* the same call settling
CopyJarToModsReturn ==
    /\ pc = "start"
    /\ pubOut.call /= NoCall
    /\ CopyReturn
    /\ UNCHANGED <<supVars, sesVars>>

\* no publication is represented: the mods folder exists and the
\* directories are empty
PubIdle ==
    /\ buildDir = <<>>
    /\ modsDir = {}
    /\ modsFolder = TRUE
    /\ pubOut = [result |-> "none", selected |-> NoFile, modsBefore |-> {},
                 call |-> NoCall]

----------------------------------------------------------------------------
(***************************************************************************)
(* Session Controller: `hyt dev`                                           *)
(***************************************************************************)

NotExited == 0 - 1
NoTimer == 0
Dead == 0 - 1
TimerIds == 1..MaxTimers

Live == exitCode = NotExited

\* `const debounceMs = parseInt(options.debounce) * 1000`, in seconds
DebounceDelay == opts.debounce

\* onFileChange without its guard
DropEventNever == FALSE

\* `if (isRebuilding) return;` at the head of onFileChange
DropEvent == isRebuilding

\* clearTimeout(id): cancels the timer if it is still pending
ClearTimeout(ts, id) == IF id /= NoTimer THEN [ts EXCEPT ![id] = Dead] ELSE ts

\* onFileChange arming a new timer without cancelling the pending one
TimersNotCleared == timers

\* `if (rebuildTimeout) clearTimeout(rebuildTimeout)`
TimersAfterClear == ClearTimeout(timers, rebuildTimeout)

LiveTimers == {t \in TimerIds : timers[t] /= Dead}

FreshTimer(ts) == CHOOSE t \in TimerIds : ts[t] = Dead /\
                      \A u \in TimerIds : ts[u] = Dead => t <= u

Min(a, b) == IF a < b THEN a ELSE b

\* the Change Watcher invokes onChange from start() until stop() has returned
WatcherDelivers == watching \in {"active", "closing"}

\* the watcher delivers a change event: onFileChange(filePath)
ChangeEvent ==
    /\ Live
    /\ WatcherDelivers
    /\ IF DropEvent
       THEN /\ pendingDrop' = TRUE
            /\ UNCHANGED <<timers, rebuildTimeout, sinceLast, sinceFirst,
                           burstLen, firedInBurst>>
       ELSE LET cleared == TimersAfterClear
                t == FreshTimer(cleared) IN
            /\ \E u \in TimerIds : cleared[u] = Dead
            /\ timers' = [cleared EXCEPT ![t] = DebounceDelay]
            /\ rebuildTimeout' = t
            /\ sinceLast' = 0
            /\ sinceFirst' = IF burstLen = 0 THEN 0 ELSE sinceFirst
            /\ burstLen' = Min(burstLen + 1, 2)
            /\ firedInBurst' = 0
            /\ pendingDrop' = FALSE
    /\ UNCHANGED <<pubVars, startup, lastRebuild,
                   opts, pc, exitCode, watcher, watching, isRebuilding, building,
                   publishing, cleanups, lastStart>>
    /\ UNCHANGED supVars

\* one second passes; a timer that is due fires before more time passes
Tick ==
    /\ Live
    /\ \A t \in TimerIds : timers[t] /= 0
    /\ LiveTimers /= {} \/ (sinceLast >= 0 /\ sinceLast <= MaxDebounce)
    /\ timers' = [t \in TimerIds |-> IF timers[t] > 0 THEN timers[t] - 1 ELSE timers[t]]
    /\ sinceLast' = IF sinceLast >= 0 THEN Min(sinceLast + 1, MaxDebounce + 1)
                    ELSE sinceLast
    /\ sinceFirst' = IF burstLen > 0 THEN Min(sinceFirst + 1, MaxDebounce + 1)
                     ELSE sinceFirst
    /\ UNCHANGED <<pubVars, startup, lastRebuild,
                   opts, pc, exitCode, watcher, watching, isRebuilding,
                   rebuildTimeout, building, publishing, cleanups, burstLen,
                   firedInBurst, lastStart, pendingDrop>>
    /\ UNCHANGED supVars

\* the debounce timer fires: the callback sets isRebuilding and awaits
\* runGradleBuild(projectDir, true)
DebounceFire ==
    \E t \in TimerIds :
        /\ Live
        /\ timers[t] = 0
        /\ building + publishing < MaxConcurrent
        /\ timers' = [timers EXCEPT ![t] = Dead]
        /\ isRebuilding' = TRUE
        /\ building' = building + 1
        /\ firedInBurst' = Min(firedInBurst + 1, 2)
        /\ lastStart' = [delay |-> sinceLast, sinceFirst |-> sinceFirst,
                         burst |-> burstLen]
        /\ burstLen' = 0
        /\ UNCHANGED <<pubVars, startup, lastRebuild,
                       opts, pc, exitCode, watcher, watching, rebuildTimeout,
                       publishing, cleanups, sinceLast, sinceFirst, pendingDrop>>
        /\ UNCHANGED supVars

\* the timer callback without its finally block
FlagLeftSet == isRebuilding

\* `finally { isRebuilding = false; }`
FlagAfterRebuild == FALSE

\* `process.exit(0)` at the end of cleanup()
CleanupExitCode == 0

\* `process.exit(1)` at the end of devCommand's catch block
FatalExitCode == 1

\* the timer callback's catch block letting the error escape the callback
ExitOnRebuildError == FatalExitCode

\* `catch (err) { error(...); info(...) }` in the timer callback: the error
\* is reported and nothing exits
ExitAfterRebuildError == exitCode

\* the timer callback calling copyJarToMods whatever runGradleBuild reported
PublishAfterFailedBuild(ok) == TRUE

\* `await runGradleBuild(projectDir); await copyJarToMods(...)` inside one
\* try block: a rejected build skips the copy
PublishAfterBuild(ok) == ok

\* runGradleBuild settles inside the timer callback: on success the callback
\* goes on to copyJarToMods, on failure to catch and finally
RebuildBuildDone ==
    \E ok \in BOOLEAN, out \in BuildOutputs(buildDir, TRUE) :
        /\ Live
        /\ building > 0
        /\ buildDir' = IF ok THEN out ELSE buildDir
        /\ UNCHANGED <<modsDir, modsFolder, pubOut, dlVars>>
        /\ building' = building - 1
        /\ publishing' = IF PublishAfterBuild(ok) THEN publishing + 1 ELSE publishing
        /\ isRebuilding' = IF PublishAfterBuild(ok) THEN isRebuilding
                           ELSE FlagAfterRebuild
        /\ lastRebuild' = IF ok THEN "built" ELSE "build_failed"
        /\ exitCode' = IF ok THEN exitCode ELSE ExitAfterRebuildError
        /\ UNCHANGED <<startup, opts, pc, watcher, watching,
                       rebuildTimeout,
                       timers, cleanups, sinceLast, sinceFirst, burstLen,
                       firedInBurst, lastStart, pendingDrop>>
        /\ UNCHANGED supVars

\* the timer callback stopping the server once the new artifact is copied
StopsOnRebuild == StopsAfterCall("rebuild")

\* the success path of the timer callback: it prints `Restart server with
\* Ctrl+C to apply changes` and makes no call to the supervisor
StopsAfterRebuild == stops

\* the file operations of the copyJarToMods call the timer callback awaits:
\* the callback stays suspended and the flag stays set
RebuildPublishCopy ==
    \E made \in BOOLEAN, copyOk \in BOOLEAN, lost \in BOOLEAN :
        /\ Live
        /\ publishing > 0
        /\ pubOut.call = NoCall
        /\ CopyEffect(made, copyOk, lost)
        /\ UNCHANGED <<supVars, sesVars>>

\* copyJarToMods settles inside the timer callback; `finally` resets the flag
RebuildPublishDone ==
        LET ok == CallSucceeded IN
        /\ Live
        /\ publishing > 0
        /\ pubOut.call /= NoCall
        /\ CopyReturn
        /\ publishing' = publishing - 1
        /\ isRebuilding' = FlagAfterRebuild
        /\ lastRebuild' = IF ok THEN "ok" ELSE "publish_failed"
        /\ exitCode' = IF ok THEN exitCode ELSE ExitAfterRebuildError
        /\ UNCHANGED <<startup, opts, pc, watcher, watching, rebuildTimeout,
                       timers, building, cleanups, sinceLast, sinceFirst, burstLen,
                       firedInBurst, lastStart, pendingDrop>>
        /\ stops' = IF ok THEN StopsAfterRebuild ELSE stops
        /\ UNCHANGED <<serverProcess, procState, procKilled, procStdio,
                       procSignals, procStdin, restarts>>

\* the catch block calling stopHytaleServer without awaiting it
FatalExitsAtOnce(noop) == TRUE

\* `await stopHytaleServer(); process.exit(1)`: the exit follows the stop's
\* resolution, which is immediate only when the stop found no handle
FatalStopResolved(noop) == noop

\* the catch block of devCommand: the timer and the watcher are released,
\* stopHytaleServer is awaited, then process.exit(1)
FatalExit ==
    /\ Len(stops) < MaxStops
    /\ stops' = StopsAfterCall("fatal")
    /\ procStdin' = StdinAfterCall
    /\ IF FatalStopResolved(StopIsNoop(serverProcess))
       THEN pc' = "exited" /\ exitCode' = FatalExitCode
       ELSE pc' = "fatal_stop" /\ exitCode' = exitCode
    /\ UNCHANGED <<serverProcess, procState, procKilled, procStdio, procSignals,
                   restarts>>
    /\ UNCHANGED <<opts, watcher, watching, isRebuilding, rebuildTimeout, timers,
                   building, publishing, cleanups, sinceLast, sinceFirst, burstLen,
                   firedInBurst, lastStart, pendingDrop>>

\* from `Start Hytale server` to `await new Promise(() => {})`: the server is
\* launched without awaiting it, the watcher is started under --watch, and
\* the signal handlers are installed
\* devCommand suspended until the promise of launchHytaleServer settles
PcAwaitingLaunch == "launching"

\* `launchHytaleServer(serverOptions); // Don't await`: devCommand goes on
\* to the watcher, the signal handlers and the keep-alive await
PcAfterLaunch == "running"

\* the watcher started whatever the options say
WatchAlways == TRUE

\* `if (options.watch) { watcher = watchFiles(...) }`
WatchStarted == opts.watch

LaunchAndWatch(spawnOk) ==
    /\ LaunchEffect(spawnOk)
    /\ pc' = PcAfterLaunch
    /\ watcher' = WatchStarted
    /\ watching' = IF WatchStarted THEN "active" ELSE watching
    /\ UNCHANGED restarts
    /\ UNCHANGED <<opts, exitCode, isRebuilding, rebuildTimeout, timers, building,
                   publishing, cleanups, sinceLast, sinceFirst, burstLen,
                   firedInBurst, lastStart, pendingDrop>>

\* watchFiles: the watcher starts, or its start fails with a WatchError
\* because the watched directory does not exist
WatchOutcomes == {"ok", "failed"}

\* watchFiles raising its WatchError to devCommand
WatchThrows(wo) == opts.watch /\ wo = "failed"

\* launchHytaleServer has returned and watchFiles throws: the catch block of
\* devCommand runs in the same turn. No timer is pending and `watcher` was
\* never assigned, so it goes straight to `await stopHytaleServer()`, which
\* finds the handle launchHytaleServer has just set; the signal handlers
\* are not installed yet.
LaunchThenFatal(spawnOk) ==
    LET p == NextProc IN
    /\ CanSpawn
    /\ serverProcess = NoProc
    /\ Len(stops) < MaxStops
    /\ serverProcess' = p
    /\ procState' = [procState EXCEPT ![p] = IF spawnOk THEN "alive" ELSE "failing"]
    /\ procStdio' = [procStdio EXCEPT ![p] = LaunchStdio]
    /\ stops' = Append(stops, [NewStop("fatal") EXCEPT !.proc = p])
    /\ procStdin' = IF HasStdin(LaunchStdio)
                    THEN [procStdin EXCEPT ![p] = Append(@, StopCommand)]
                    ELSE procStdin
    /\ IF FatalStopResolved(FALSE)
       THEN pc' = "exited" /\ exitCode' = FatalExitCode
       ELSE pc' = "fatal_stop" /\ exitCode' = exitCode
    /\ UNCHANGED <<procKilled, procSignals, restarts>>
    /\ UNCHANGED <<opts, watcher, watching, isRebuilding, rebuildTimeout, timers,
                   building, publishing, cleanups, sinceLast, sinceFirst, burstLen,
                   firedInBurst, lastStart, pendingDrop>>

PreChecks == {"ok", "no_config", "no_gradle_wrapper", "no_server_files"}

\* launchHytaleServer at startup: the process runs, execa throws, or the
\* executable cannot be spawned
LaunchOutcomes == {"ok", "threw", "spawn_failed"}

\* the rest of devCommand once the initial build phase is over
LaunchPhase(lo, wo) ==
    IF lo = "threw" THEN FatalExit
    ELSE IF WatchThrows(wo) THEN LaunchThenFatal(lo = "ok")
    ELSE LaunchAndWatch(lo = "ok")

\* what the startup record keeps of the watcher's start
WatchRecord(lo, wo) ==
    IF lo = "threw" \/ ~opts.watch THEN "none" ELSE wo

\* devCommand from its first line to the first await that other events can
\* interleave with
Startup ==
    \E check \in PreChecks, lo \in LaunchOutcomes, wo \in WatchOutcomes :
        /\ Live
        /\ pc = "start"
        /\ lastRebuild' = lastRebuild
        /\ UNCHANGED pubVars
        /\ startup' = [startup EXCEPT
                         !.check = check,
                         !.launch = IF check = "ok" /\ ~opts.initialBuild
                                    THEN lo ELSE @,
                         !.watch = IF check = "ok" /\ ~opts.initialBuild
                                   THEN WatchRecord(lo, wo) ELSE @]
        /\ IF check /= "ok" THEN FatalExit
           ELSE IF opts.initialBuild
                THEN /\ pc' = "build"
                     /\ UNCHANGED supVars
                     /\ UNCHANGED <<opts, exitCode, watcher, watching, isRebuilding,
                                    rebuildTimeout, timers, building, publishing,
                                    cleanups, sinceLast, sinceFirst, burstLen,
                                    firedInBurst, lastStart, pendingDrop>>
                ELSE LaunchPhase(lo, wo)

\* the initial build's catch block without its throw
InitialBuildErrorIgnored(ok) == TRUE

\* `try { await runGradleBuild(projectDir) } catch { throw new GradleError }`:
\* devCommand goes on to copyJarToMods only when the build succeeded
InitialBuildPasses(ok) == ok

\* the initial runGradleBuild settles
InitialBuildDone ==
    \E ok \in BOOLEAN, out \in BuildOutputs(buildDir, FALSE) :
        /\ Live
        /\ pc = "build"
        /\ lastRebuild' = lastRebuild
        /\ buildDir' = IF ok THEN out ELSE buildDir
        /\ UNCHANGED <<modsDir, modsFolder, pubOut, dlVars>>
        /\ startup' = [startup EXCEPT !.build = IF ok THEN "ok" ELSE "failed"]
        /\ IF InitialBuildPasses(ok)
           THEN /\ pc' = "publish"
                /\ UNCHANGED supVars
                /\ UNCHANGED <<opts, exitCode, watcher, watching, isRebuilding,
                               rebuildTimeout, timers, building, publishing,
                               cleanups, sinceLast, sinceFirst, burstLen,
                               firedInBurst, lastStart, pendingDrop>>
           ELSE FatalExit

\* the initial copyJarToMods with its error swallowed
InitialPublishErrorIgnored(ok) == TRUE

\* `await copyJarToMods(projectDir, modsDir)` outside any inner try: its
\* error reaches the catch block of devCommand
InitialPublishPasses(ok) == ok

\* the file operations of the initial copyJarToMods: devCommand stays
\* suspended on the call
InitialPublishCopy ==
    \E made \in BOOLEAN, copyOk \in BOOLEAN, lost \in BOOLEAN :
        /\ Live
        /\ pc = "publish"
        /\ pubOut.call = NoCall
        /\ CopyEffect(made, copyOk, lost)
        /\ UNCHANGED <<supVars, sesVars>>

\* the initial copyJarToMods settles
InitialPublishDone ==
    \E lo \in LaunchOutcomes, wo \in WatchOutcomes :
        LET ok == CallSucceeded IN
        /\ Live
        /\ pc = "publish"
        /\ pubOut.call /= NoCall
        /\ lastRebuild' = lastRebuild
        /\ CopyReturn
        /\ startup' = [startup EXCEPT !.publish = IF ok THEN "ok" ELSE "failed",
                                      !.launch = IF InitialPublishPasses(ok)
                                                 THEN lo ELSE @,
                                      !.watch = IF InitialPublishPasses(ok)
                                                THEN WatchRecord(lo, wo) ELSE @]
        /\ IF InitialPublishPasses(ok) THEN LaunchPhase(lo, wo) ELSE FatalExit

\* cleanup() going straight on to stopHytaleServer
CleanupSkipsWatcher == FALSE

\* `if (watcher) { await stopWatcher(watcher); watcher = null; }`
CleanupAwaitsWatcher == watcher

\* a cleanup() that waits for the rebuild in flight before it does anything
CleanupWaitsForRebuild == ~isRebuilding

\* cleanup() reads neither isRebuilding nor any promise of the timer
\* callback: it starts at once whatever the rebuild is doing
CleanupProceeds == TRUE

\* SIGINT or SIGTERM: cleanup() runs up to its first await. A cleanup record
\* keeps whether the invocation called stopWatcher and which stop it made.
TerminationRequest ==
    /\ Live
    /\ pc = "running"
    /\ Len(cleanups) < MaxSignals
    /\ IF CleanupProceeds
       THEN /\ timers' = TimersAfterClear
            /\ IF CleanupAwaitsWatcher
               THEN /\ watching' = IF watching = "active" THEN "closing" ELSE watching
                    /\ cleanups' = Append(cleanups, [pc |-> "await_watcher", stop |-> 0,
                                                     watcherStop |-> TRUE])
                    /\ UNCHANGED <<exitCode, supVars>>
               ELSE /\ Len(stops) < MaxStops
                    /\ stops' = StopsAfterCall("cleanup")
                    /\ procStdin' = StdinAfterCall
                    /\ IF StopIsNoop(serverProcess)
                       THEN /\ exitCode' = CleanupExitCode
                            /\ cleanups' = Append(cleanups,
                                             [pc |-> "done", stop |-> Len(stops) + 1,
                                              watcherStop |-> FALSE])
                       ELSE /\ exitCode' = exitCode
                            /\ cleanups' = Append(cleanups,
                                             [pc |-> "await_stop", stop |-> Len(stops) + 1,
                                              watcherStop |-> FALSE])
                    /\ UNCHANGED <<serverProcess, procState, procKilled, procStdio,
                                   procSignals, restarts, watching>>
            /\ UNCHANGED <<pubVars, startup, lastRebuild,
                           opts, pc, watcher, isRebuilding, rebuildTimeout, building,
                           publishing, sinceLast, sinceFirst, burstLen, firedInBurst,
                           lastStart, pendingDrop>>
       ELSE /\ cleanups' = Append(cleanups, [pc |-> "await_rebuild", stop |-> 0,
                                             watcherStop |-> FALSE])
            /\ UNCHANGED <<supVars, pubVars, startup, lastRebuild,
                           opts, pc, exitCode, watcher, watching, isRebuilding,
                           rebuildTimeout, timers, building, publishing,
                           sinceLast, sinceFirst, burstLen, firedInBurst,
                           lastStart, pendingDrop>>

\* the cleanups suspended at `await stopWatcher(watcher)`, in call order
AwaitingWatcher == {c \in DOMAIN cleanups : cleanups[c].pc = "await_watcher"}

\* how many members of S are below c
Rank(S, c) == Cardinality({d \in S : d < c})

RECURSIVE StdinAfterStops(_, _, _)
StdinAfterStops(stdin, h, k) ==
    IF k = 0 THEN stdin
    ELSE StdinAfterStops(IF HasStdin(procStdio[h])
                         THEN [stdin EXCEPT ![h] = Append(@, StopCommand)]
                         ELSE stdin, h, k - 1)

\* stopWatcher settles: the watcher closes once and every cleanup awaiting
\* it resumes in call order, sets watcher = null and calls stopHytaleServer.
\* With no handle each of those calls returns at once, and the first
\* cleanup reaches process.exit(0) when the others have made their call.
WatcherClosed ==
    LET W == AwaitingWatcher
        k == Cardinality(W)
        noop == StopIsNoop(serverProcess) IN
    /\ Live
    /\ watching = "closing"
    /\ watching' = "closed"
    /\ watcher' = FALSE
    /\ IF noop
       THEN /\ Len(stops) + k <= MaxStops
            /\ stops' = stops \o
                          [j \in 1..k |->
                             [NoopStop("cleanup") EXCEPT !.handleAtEnd = serverProcess]]
            /\ procStdin' = procStdin
            /\ exitCode' = CleanupExitCode
            /\ cleanups' = [c \in DOMAIN cleanups |->
                             IF c \in W
                             THEN [cleanups[c] EXCEPT
                                     !.pc = IF Rank(W, c) = 0 THEN "done"
                                            ELSE "await_stop",
                                     !.stop = Len(stops) + Rank(W, c) + 1]
                             ELSE cleanups[c]]
       ELSE /\ Len(stops) + k <= MaxStops
            /\ stops' = stops \o [j \in 1..k |-> NewStop("cleanup")]
            /\ procStdin' = StdinAfterStops(procStdin, serverProcess, k)
            /\ exitCode' = exitCode
            /\ cleanups' = [c \in DOMAIN cleanups |->
                             IF c \in W
                             THEN [cleanups[c] EXCEPT
                                     !.pc = "await_stop",
                                     !.stop = Len(stops) + Rank(W, c) + 1]
                             ELSE cleanups[c]]
    /\ UNCHANGED <<serverProcess, procState, procKilled, procStdio, procSignals,
                   restarts>>
    /\ UNCHANGED <<pubVars, startup, lastRebuild,
                   opts, pc, isRebuilding, rebuildTimeout, timers, building,
                   publishing, sinceLast, sinceFirst, burstLen, firedInBurst,
                   lastStart, pendingDrop>>

\* the grace-period timer of a stop fires during the session
SessionGraceTimerFire ==
    /\ Live
    /\ \E i \in DOMAIN stops : GraceTimerFire(i)
    /\ UNCHANGED <<sesVars, pubVars>>

\* the forced kill of a process falls due during the session
SessionForceKillFire ==
    /\ Live
    /\ \E p \in ProcIds : ForceKillFire(p)
    /\ UNCHANGED <<sesVars, pubVars>>

\* a session that ends, as after a shutdown, when its server process ends
ExitWithServer == CleanupExitCode

\* the then/catch handlers launchHytaleServer attaches to the subprocess
\* promise log the exit and clear the handle: they call neither cleanup()
\* nor process.exit
ExitAfterServerExit == exitCode

\* the server process exits during the session; a cleanup whose
\* `await stopHytaleServer()` resolves goes on to process.exit(0), the catch
\* block of devCommand to process.exit(1)
SessionProcExitOf(p, failed) ==
        LET done == Awaiting(p)
            resumed == {c \in DOMAIN cleanups :
                          cleanups[c].pc = "await_stop" /\ cleanups[c].stop \in done}
            fatal == pc = "fatal_stop" /\
                     \E i \in done : stops[i].caller = "fatal" IN
        /\ Live
        /\ ProcExitEffect(p, failed)
        /\ cleanups' = [c \in DOMAIN cleanups |->
                          IF c \in resumed /\ Rank(resumed, c) = 0
                          THEN [cleanups[c] EXCEPT !.pc = "done"] ELSE cleanups[c]]
        /\ exitCode' = IF resumed /= {} THEN CleanupExitCode
                       ELSE IF fatal THEN FatalExitCode ELSE ExitAfterServerExit
        /\ pc' = IF resumed = {} /\ fatal THEN "exited" ELSE pc
        /\ UNCHANGED <<pubVars, startup, lastRebuild,
                       opts, watcher, watching, isRebuilding, rebuildTimeout,
                       timers, building, publishing, sinceLast, sinceFirst,
                       burstLen, firedInBurst, lastStart, pendingDrop>>

SessionProcExit == \E p \in ProcIds, failed \in BOOLEAN : SessionProcExitOf(p, failed)

OptionSets == [initialBuild : BOOLEAN, watch : BOOLEAN, debounce : 1..MaxDebounce]

\* the module variables of dev.ts before devCommand's action runs
SesIdle ==
    /\ pc = "start"
    /\ exitCode = NotExited
    /\ watcher = FALSE
    /\ watching = "none"
    /\ isRebuilding = FALSE
    /\ rebuildTimeout = NoTimer
    /\ timers = [t \in TimerIds |-> Dead]
    /\ building = 0
    /\ publishing = 0
    /\ cleanups = <<>>
    /\ sinceLast = 0 - 1
    /\ sinceFirst = 0
    /\ burstLen = 0
    /\ firedInBurst = 0
    /\ lastStart = [delay |-> 0 - 1, sinceFirst |-> 0, burst |-> 0]
    /\ pendingDrop = FALSE
    /\ startup = [check |-> "none", build |-> "none", publish |-> "none",
                  launch |-> "none", watch |-> "none"]
    /\ lastRebuild = "none"

----------------------------------------------------------------------------
(***************************************************************************)
(* Build command: `hyt build`                                              *)
(*                                                                         *)
(* The action of the command is one async function; each of its steps      *)
(* below ends at an await.  It installs no handler, so nothing of the      *)
(* program runs in between.                                                *)
(***************************************************************************)

\* `process.exit(0)` at the end of the try block
BuildExitOk == 0

\* `process.exit(1)` in the catch block
BuildExitError == 1

\* what the command never touches
BuildCommandFrame ==
    /\ UNCHANGED supVars
    /\ UNCHANGED <<opts, watcher, watching, isRebuilding, rebuildTimeout, timers,
                   building, publishing, cleanups, sinceLast, sinceFirst,
                   burstLen, firedInBurst, lastStart, pendingDrop, startup,
                   lastRebuild>>
    /\ UNCHANGED dlVars

\* the catch block: the message is printed and the process exits with 1
BuildCommandFails == pc' = "exited" /\ exitCode' = BuildExitError

\* from the first line to `await runGradleBuild(projectDir)`: without a
\* Gradle wrapper a GradleError is thrown
BuildCommandStart ==
    \E wrapper \in BOOLEAN :
        /\ Live
        /\ pc = "start"
        /\ pubOut.result = "none"
        /\ pubOut.call = NoCall
        /\ IF wrapper THEN pc' = "hyt_build" /\ exitCode' = exitCode
           ELSE BuildCommandFails
        /\ UNCHANGED <<buildDir, modsDir, modsFolder, pubOut>>
        /\ BuildCommandFrame

\* runGradleBuild settles: a failed build is thrown to the catch block,
\* otherwise the command goes on to `await fs.readdir(buildOutputDir)`
BuildCommandBuildDone ==
    \E ok \in BOOLEAN, out \in BuildOutputs(buildDir, FALSE) :
        /\ Live
        /\ pc = "hyt_build"
        /\ buildDir' = IF ok THEN out ELSE buildDir
        /\ IF ok THEN pc' = "hyt_find" /\ exitCode' = exitCode
           ELSE BuildCommandFails
        /\ UNCHANGED <<modsDir, modsFolder, pubOut>>
        /\ BuildCommandFrame

\* fs.readdir settles: a failure is swallowed and leaves no jar; with no
\* artifact found a GradleError is thrown; with --no-copy the command ends;
\* otherwise it goes on to `await fs.access(modsDir)`
BuildCommandFind ==
    \E listed \in BOOLEAN, copy \in BOOLEAN :
        LET k == IF listed THEN Find(buildDir) ELSE 0
            found == [phase |-> "found", selected |-> buildDir[k],
                      modsBefore |-> modsDir] IN
        /\ Live
        /\ pc = "hyt_find"
        /\ IF k = 0
           THEN /\ pubOut' = [result |-> "error", selected |-> NoFile,
                              modsBefore |-> modsDir, call |-> NoCall]
                /\ BuildCommandFails
           ELSE IF copy
           THEN /\ pubOut' = [pubOut EXCEPT !.call = found]
                /\ pc' = "hyt_copy"
                /\ exitCode' = exitCode
           ELSE /\ pubOut' = [result |-> "skipped", selected |-> buildDir[k],
                              modsBefore |-> modsDir, call |-> NoCall]
                /\ pc' = "exited"
                /\ exitCode' = BuildExitOk
        /\ UNCHANGED <<buildDir, modsDir, modsFolder>>
        /\ BuildCommandFrame

\* `await fs.access(modsDir); await fs.copyFile(jarPath, destPath)`: without
\* the folder nothing is copied; a copy that fails leaves the destination
\* as it was or, if it had opened it, removed.  The folder is never made.
BuildCommandCopy ==
    \E copyOk \in BOOLEAN, lost \in BOOLEAN :
        LET f == pubOut.call.selected IN
        /\ Live
        /\ pc = "hyt_copy"
        /\ modsDir' = IF ~modsFolder THEN modsDir
                      ELSE IF copyOk THEN CopyFile(modsDir, f)
                      ELSE IF lost THEN RemoveFile(modsDir, f)
                      ELSE modsDir
        /\ pubOut' = [pubOut EXCEPT !.call.phase =
                         IF modsFolder /\ copyOk THEN "copied" ELSE "failed"]
        /\ pc' = "hyt_copied"
        /\ exitCode' = exitCode
        /\ UNCHANGED <<buildDir, modsFolder>>
        /\ BuildCommandFrame

\* the copy has settled: its failure is caught and only reported, and the
\* command ends with `process.exit(0)` either way
BuildCommandExit ==
    /\ Live
    /\ pc = "hyt_copied"
    /\ CopyReturn
    /\ pc' = "exited"
    /\ exitCode' = BuildExitOk
    /\ BuildCommandFrame

----------------------------------------------------------------------------
(***************************************************************************)
(* downloadFile                                                            *)
(*                                                                         *)
(* A URL and a Location header are sequences of tokens, so that startsWith *)
(* is computed on the text; a server is what each URL answers to a GET.    *)
(***************************************************************************)

\* `maxRedirects = 10`
DefaultMaxRedirects == 10

Hosts == {"a", "b"}
Paths == {"/x"}
Urls == {<<"http", h, q>> : h \in Hosts, q \in Paths}

\* a Location header: an absolute URL or an absolute path; absent, it is the
\* empty text
NoLocation == <<>>
Locations == Urls \cup {<<q>> : q \in Paths}

Statuses == {200, 302, 404}

\* a GET that meets neither a response nor an error: the server never
\* answers, and no timeout is set on the request
NoAnswer == [error |-> FALSE, status |-> 0, location |-> NoLocation]

\* what a GET can meet: no answer at all, a socket error before any
\* response, or a response with its status code and Location header, after
\* which the connection may be reset: the body of a redirect is never read
\* and its request never destroyed, so its socket stays open while the
\* redirect is followed
Responses ==
    {NoAnswer} \cup
    {[error |-> TRUE, status |-> 0, location |-> NoLocation]} \cup
    {[error |-> e, status |-> c, location |-> NoLocation] :
        e \in BOOLEAN, c \in Statuses} \cup
    {[error |-> e, status |-> 302, location |-> l] :
        e \in BOOLEAN, l \in Locations}

Servers == [Urls -> Responses]

\* the values of maxRedirects a caller may pass, the default among them
Budgets == (0..MaxRedirectBudget) \cup {DefaultMaxRedirects}

\* `redirectUrl.startsWith('http')`
StartsWithHttp(l) == l /= <<>> /\ l[1] = "http"

\* `redirectUrl.startsWith('http') ? redirectUrl : new URL(redirectUrl, url)`
ResolveUrl(l, url) == IF StartsWithHttp(l) THEN l ELSE <<url[1], url[2]>> \o l

\* the request's 'error' event comes before any response
FailsBeforeResponse(r) == r.error /\ r.status = 0

\* the request's 'error' event comes after the response callback has run
ResetsAfterResponse(r) == r.error /\ r.status /= 0

\* resolve or reject called on the caller's promise: only the first call
\* settles it
Settle(res, v) == IF res \in {"idle", "pending"} THEN v ELSE res

\* `response.statusCode >= 300 && response.statusCode < 400`
IsRedirect(r) == r.status >= 300 /\ r.status < 400

\* `downloadFile(resolvedUrl, destPath, maxRedirects - 1)`
BudgetAfterRedirect(b) == b - 1

\* one call of downloadFile up to the return of its executor: with
\* maxRedirects 0 its promise is rejected at once, and the rejection passes
\* up the chain of `.then(resolve).catch(reject)` to the caller's promise;
\* otherwise the GET is issued
EnterDownload(d, url, budget) ==
    IF budget = 0
    THEN [d EXCEPT !.budget = budget, !.stage = "exhausted",
                   !.result = Settle(@, "too_many_redirects")]
    ELSE [d EXCEPT !.url = url, !.budget = budget, !.requests = @ + 1,
                   !.stage = "requesting",
                   !.result = Settle(@, "pending")]

\* the caller's downloadFile(url, destPath[, maxRedirects])
DownloadFile ==
    /\ download.stage = "idle"
    /\ download' = EnterDownload(download, download.url, download.initial)
    /\ UNCHANGED <<supVars, sesVars, buildDir, modsDir, modsFolder, pubOut>>

\* the GET of the current call is answered, or fails: a redirect with a
\* Location makes the recursive call, whose outcome is passed to this call's
\* resolve and reject, while this call's request stays open with its
\* 'error' listener; any other status than 200 rejects; 200 starts the copy
\* to the file
DownloadResponse ==
    LET r == download.server[download.url] IN
    /\ download.stage = "requesting"
    /\ r /= NoAnswer
    /\ download.requests < MaxRequests
    /\ download' =
          IF FailsBeforeResponse(r)
          THEN [download EXCEPT !.stage = "over",
                                !.result = Settle(@, "request_error")]
          ELSE IF IsRedirect(r) /\ r.location /= NoLocation
          THEN EnterDownload([download EXCEPT !.open = @ \cup {download.url}],
                             ResolveUrl(r.location, download.url),
                             BudgetAfterRedirect(download.budget))
          ELSE IF r.status /= 200
          THEN [download EXCEPT !.stage = "over",
                                !.result = Settle(@, "bad_status")]
          ELSE [download EXCEPT !.stage = "streaming"]
    /\ UNCHANGED <<supVars, sesVars, buildDir, modsDir, modsFolder, pubOut>>

\* the requests whose 'error' event can still come after their response:
\* those whose redirect was followed, and the one whose body is being copied
ListeningRequests(d) ==
    d.open \cup (IF d.stage = "streaming" THEN {d.url} ELSE {})

\* `request.on('error', reject)`, attached by every call of the chain: the
\* connection of a request that was answered is reset, and the reject of its
\* call, passed up the chain, rejects the caller's promise if that is still
\* pending. The calls further down the chain are not stopped; a body being
\* copied on the reset connection neither finishes nor fails.
DownloadRequestError ==
    \E u \in ListeningRequests(download) :
        /\ download.result = "pending"
        /\ ResetsAfterResponse(download.server[u])
        /\ download' = [download EXCEPT !.result = "request_error",
                                        !.open = @ \ {u}]
        /\ UNCHANGED <<supVars, sesVars, buildDir, modsDir, modsFolder, pubOut>>

\* the file stream finishes or fails; a response body that stalls or is
\* closed short of its length brings neither event, and the promise stays
\* unsettled; a body cut by a reset never finishes
DownloadStreamEnd ==
    \E ok \in BOOLEAN :
        /\ download.stage = "streaming"
        /\ ok => ~ResetsAfterResponse(download.server[download.url])
        /\ download' = [download EXCEPT
                          !.stage = "over",
                          !.result = Settle(@, IF ok THEN "resolved"
                                               ELSE "file_error")]
        /\ UNCHANGED <<supVars, sesVars, buildDir, modsDir, modsFolder, pubOut>>

\* no downloadFile call is represented
DlIdle ==
    download = [server |-> [u \in Urls |->
                              [error |-> TRUE, status |-> 0, location |-> NoLocation]],
                url |-> <<"http", "a", "/x">>, budget |-> DefaultMaxRedirects,
                initial |-> DefaultMaxRedirects, requests |-> 0, result |-> "idle",
                stage |-> "idle", open |-> {}]

----------------------------------------------------------------------------
(***************************************************************************)
(* The supervisor driven through its exported functions, called in any     *)
(* order by the rest of the program.                                       *)
(***************************************************************************)

SupInit ==
    /\ serverProcess = NoProc
    /\ procState = [p \in ProcIds |-> "unborn"]
    /\ procKilled = [p \in ProcIds |-> FALSE]
    /\ procStdio = [p \in ProcIds |-> "none"]
    /\ procSignals = [p \in ProcIds |-> <<>>]
    /\ procStdin = [p \in ProcIds |-> <<>>]
    /\ stops = <<>>
    /\ restarts = <<>>

SupervisorInit ==
    /\ SupInit
    /\ SesIdle
    /\ PubIdle
    /\ DlIdle
    /\ opts = [initialBuild |-> TRUE, watch |-> FALSE, debounce |-> MaxDebounce]

ApiLaunch ==
    /\ \/ \E spawnOk \in BOOLEAN : LaunchEffect(spawnOk)
       \/ LaunchThrowEffect
    /\ UNCHANGED restarts
    /\ UNCHANGED <<sesVars, pubVars>>

ApiStop == StopEffect("api") /\ UNCHANGED restarts /\ UNCHANGED <<sesVars, pubVars>>

\* restartHytaleServer calling stopHytaleServer without awaiting it
RestartSkipsAwait(noop) == "delay"

\* `await stopHytaleServer()` in restartHytaleServer: the delay starts once
\* the stop has resolved, at once when there was no handle
RestartPcAfterStop(noop) == IF noop THEN "delay" ELSE "await_stop"

\* restartHytaleServer up to its first suspension
ApiRestart ==
    /\ Len(restarts) < MaxRestarts
    /\ StopEffect("restart")
    /\ restarts' = Append(restarts,
            [pc |-> RestartPcAfterStop(StopIsNoop(serverProcess)),
             stop |-> Len(stops) + 1])
    /\ UNCHANGED <<sesVars, pubVars>>

\* the 2000 ms delay of restart r elapses: launchHytaleServer(options),
\* which spawns or throws; either way the restart is over
RestartDelayFire(r) ==
    /\ restarts[r].pc = "delay"
    /\ \/ \E spawnOk \in BOOLEAN : LaunchEffect(spawnOk)
       \/ LaunchThrowEffect
    /\ restarts' = [restarts EXCEPT ![r].pc = "done"]
    /\ UNCHANGED <<sesVars, pubVars>>

ApiGraceTimerFire ==
    /\ \E i \in DOMAIN stops : GraceTimerFire(i)
    /\ UNCHANGED <<sesVars, pubVars>>

ApiForceKillFire ==
    /\ \E p \in ProcIds : ForceKillFire(p)
    /\ UNCHANGED <<sesVars, pubVars>>

ApiRestartDelayFire == \E r \in DOMAIN restarts : RestartDelayFire(r)

ApiProcExit ==
    /\ \E p \in ProcIds, failed \in BOOLEAN : ProcExitEffect(p, failed)
    /\ UNCHANGED <<sesVars, pubVars>>

SupNext ==
    \/ ApiLaunch
    \/ ApiStop
    \/ ApiRestart
    \/ ApiGraceTimerFire
    \/ ApiForceKillFire
    \/ ApiRestartDelayFire
    \/ ApiProcExit

SupervisorSpec == SupervisorInit /\ [][SupNext]_vars

----------------------------------------------------------------------------
(***************************************************************************)
(* One run of `hyt dev`                                                    *)
(***************************************************************************)

Init ==
    /\ SupInit
    /\ SesIdle
    /\ PubIdle
    /\ DlIdle
    /\ opts \in OptionSets

Next ==
    \/ Startup
    \/ InitialBuildDone
    \/ InitialPublishCopy
    \/ InitialPublishDone
    \/ ChangeEvent
    \/ Tick
    \/ DebounceFire
    \/ RebuildBuildDone
    \/ RebuildPublishCopy
    \/ RebuildPublishDone
    \/ TerminationRequest
    \/ WatcherClosed
    \/ SessionGraceTimerFire
    \/ SessionForceKillFire
    \/ SessionProcExit

Spec == Init /\ [][Next]_vars

\* A process that was sent SIGKILL cannot ignore it, and the promise of a
\* subprocess that could not be spawned settles when its 'error' event is
\* emitted.
MustSettle(p) == Received(p, "SIGKILL") \/ procState[p] = "failing"

KilledProcExit ==
    \E p \in ProcIds :
        /\ MustSettle(p)
        /\ ProcExitEffect(p, TRUE)
        /\ UNCHANGED <<sesVars, pubVars>>

\* The event loop runs every timer that is due; nothing obliges a running
\* process to exit unless it was sent SIGKILL.
SupervisorFairSpec ==
    /\ SupervisorInit /\ [][SupNext]_vars
    /\ WF_vars(ApiGraceTimerFire)
    /\ WF_vars(ApiForceKillFire)
    /\ WF_vars(ApiRestartDelayFire)
    /\ WF_vars(KilledProcExit)

\* The supervisor driven through launchHytaleServer and stopHytaleServer
\* alone, called in any order, under the same fairness: every stop and every
\* launch restartHytaleServer makes is one of these calls.
LaunchStopNext ==
    \/ ApiLaunch
    \/ ApiStop
    \/ ApiGraceTimerFire
    \/ ApiForceKillFire
    \/ ApiProcExit

LaunchStopFairSpec ==
    /\ SupervisorInit /\ [][LaunchStopNext]_vars
    /\ WF_vars(ApiGraceTimerFire)
    /\ WF_vars(ApiForceKillFire)
    /\ WF_vars(KilledProcExit)

\* The same during the session.
SessionKilledProcExit ==
    \E p \in ProcIds :
        /\ MustSettle(p)
        /\ SessionProcExitOf(p, TRUE)

\* One run of `hyt dev` in which due grace timers and forced kills fire, the
\* watcher's stop completes, and a process that was killed or could not be
\* spawned settles; the server process and the builds owe nothing. The
\* debounce window plays no part in the shutdown and is the shortest.
FairInit == Init /\ opts.debounce = 1

FairSpec ==
    /\ FairInit /\ [][Next]_vars
    /\ WF_vars(SessionGraceTimerFire)
    /\ WF_vars(SessionForceKillFire)
    /\ WF_vars(WatcherClosed)
    /\ WF_vars(SessionKilledProcExit)

----------------------------------------------------------------------------
(***************************************************************************)
(* The publisher on its own: copyJarToMods called once, or `hyt build`     *)
(* run once, on any build output directory and on a mods directory that    *)
(* is missing, empty or holds an artifact of an earlier build              *)
(***************************************************************************)

PriorMods == {{}, {[name |-> <<"a", ".jar">>, mtime |-> 1]}}

PublisherInit ==
    /\ SupInit
    /\ SesIdle
    /\ DlIdle
    /\ opts = [initialBuild |-> TRUE, watch |-> FALSE, debounce |-> MaxDebounce]
    /\ buildDir \in Listings
    /\ modsDir \in PriorMods
    /\ modsFolder \in BOOLEAN
    /\ ~modsFolder => modsDir = {}
    /\ pubOut = [result |-> "none", selected |-> NoFile, modsBefore |-> {},
                 call |-> NoCall]

PublisherNext ==
    \/ CopyJarToModsCopy
    \/ CopyJarToModsReturn
    \/ BuildCommandStart
    \/ BuildCommandBuildDone
    \/ BuildCommandFind
    \/ BuildCommandCopy
    \/ BuildCommandExit

PublisherSpec == PublisherInit /\ [][PublisherNext]_vars

----------------------------------------------------------------------------
(***************************************************************************)
(* One run of `hyt dev --no-initial-build` without --watch, started on any *)
(* build output directory left by earlier builds                           *)
(***************************************************************************)

ResumeInit ==
    /\ SupInit
    /\ SesIdle
    /\ DlIdle
    /\ opts \in {o \in OptionSets : ~o.initialBuild /\ ~o.watch}
    /\ buildDir \in Listings
    /\ modsDir = {}
    /\ modsFolder = TRUE
    /\ pubOut = [result |-> "none", selected |-> NoFile, modsBefore |-> {},
                 call |-> NoCall]

ResumeNext ==
    \/ Startup
    \/ TerminationRequest
    \/ SessionGraceTimerFire
    \/ SessionForceKillFire
    \/ SessionProcExit

ResumeSpec == ResumeInit /\ [][ResumeNext]_vars

----------------------------------------------------------------------------
(***************************************************************************)
(* One downloadFile call, on any server and with any maxRedirects          *)
(***************************************************************************)

DownloadInit ==
    /\ SupInit
    /\ SesIdle
    /\ PubIdle
    /\ opts = [initialBuild |-> TRUE, watch |-> FALSE, debounce |-> MaxDebounce]
    /\ download \in [server : Servers, url : Urls, budget : Budgets,
                      initial : Budgets, requests : {0}, result : {"idle"},
                      stage : {"idle"}, open : {{}}]
    /\ download.budget = download.initial

DownloadNext ==
    \/ DownloadFile
    \/ DownloadResponse
    \/ DownloadRequestError
    \/ DownloadStreamEnd

DownloadSpec == DownloadInit /\ [][DownloadNext]_vars

\* The executor of a call runs, and the response or error event of a GET
\* that has one is dispatched, at whatever point of the chain.  Nothing
\* makes the server answer or the body of a 200 response arrive in full.
DownloadFairSpec ==
    /\ DownloadSpec
    /\ WF_vars(DownloadFile)
    /\ WF_vars(DownloadResponse)
    /\ WF_vars(DownloadRequestError)

----------------------------------------------------------------------------
(***************************************************************************)
(* Properties of the debounced rebuild                                     *)
(***************************************************************************)

InFlight == building + publishing

\* C1: a rebuild begins exactly the debounce delay after the last accepted
\* change event, at most one rebuild begins per burst of events, and once
\* the delay has passed since the last event of a burst (with no shutdown
\* requested) that one rebuild has begun.
C1_RebuildAfterLastEvent ==
    /\ lastStart.burst > 0 => lastStart.delay = DebounceDelay
    /\ firedInBurst <= 1
    /\ (Live /\ cleanups = <<>> /\ sinceLast > DebounceDelay) => firedInBurst = 1

C1_Witness ==
    /\ lastStart.burst >= 2
    /\ lastStart.delay = DebounceDelay
    /\ lastStart.sinceFirst > DebounceDelay
    /\ firedInBurst = 1

\* C2: at most one rebuild sequence is executing, and isRebuilding is true
\* exactly while one is.
C2_OneRebuildAtATime ==
    /\ InFlight <= 1
    /\ isRebuilding <=> InFlight = 1

C2_Witness ==
    /\ isRebuilding
    /\ publishing = 1
    /\ pendingDrop

\* C3: while a rebuild is in flight no debounce timer is pending, and an
\* event dropped during a rebuild leaves none pending after it: without a
\* later event no further rebuild can begin.
C3_DroppedEventsArmNothing ==
    /\ isRebuilding => LiveTimers = {}
    /\ pendingDrop => LiveTimers = {}

C3_Witness ==
    /\ pendingDrop
    /\ ~isRebuilding
    /\ InFlight = 0
    /\ Live
    /\ cleanups = <<>>

----------------------------------------------------------------------------
(***************************************************************************)
(* Properties of the Process Supervisor                                    *)
(***************************************************************************)

\* the stop invocations that found a handle
RealStops == {i \in DOMAIN stops : stops[i].proc /= NoProc}

\* C4: in every reachable state at most one supervised process is alive.
C4_AtMostOneAlive == Cardinality(Alive) <= 1

\* C5: a stop whose process exited before its grace-period timer fired has
\* sent no signal, has cancelled the timer and has cleared the handle.
C5_VoluntaryExitNoSignal ==
    \A i \in RealStops :
        (stops[i].pc = "done" /\ stops[i].timer /= "fired") =>
            /\ stops[i].timer = "cleared"
            /\ stops[i].sent = <<>>
            /\ stops[i].handleAtEnd = NoProc
            /\ serverProcess /= stops[i].proc

C5_Witness ==
    \E i \in RealStops :
        /\ stops[i].pc = "done"
        /\ stops[i].timer = "cleared"
        /\ procState[stops[i].proc] = "exited"

\* C6: once the grace-period timer of a stop has fired with its process still
\* running, that process has been sent SIGTERM.
C6_GraceExpiryTerminates ==
    \A i \in RealStops :
        stops[i].timer = "fired" => Received(stops[i].proc, "SIGTERM")

\* C7: a process that was sent SIGTERM at grace-period expiry and does not
\* exit is eventually sent SIGKILL.
C7_KillAfterTerminate ==
    \A p \in ProcIds :
        [](Received(p, "SIGTERM") =>
             <>(procState[p] = "exited" \/ Received(p, "SIGKILL")))

\* a stop whose grace period expired sent SIGTERM to the process it awaits,
\* the process did not exit, was sent SIGKILL, and the stop has resolved
C7_Witness ==
    \E i \in RealStops :
        /\ stops[i].sent = <<<<"SIGTERM", stops[i].proc>>,
                             <<"SIGKILL", stops[i].proc>>>>
        /\ procSignals[stops[i].proc] = <<"SIGTERM", "SIGKILL">>
        /\ procState[stops[i].proc] = "exited"
        /\ stops[i].pc = "done"

\* C8: every stop that has resolved left the handle none, so no process is
\* attached to it, whichever path the stop took.
C8_ResolvedStopClearsHandle ==
    \A i \in DOMAIN stops :
        stops[i].pc = "done" =>
            /\ stops[i].handleAtEnd = NoProc
            /\ stops[i].proc /= NoProc => serverProcess /= stops[i].proc

C8_Witness ==
    \E i \in RealStops :
        /\ stops[i].pc = "done"
        /\ stops[i].timer = "fired"
        /\ stops[i].sent /= <<>>

\* C9: every stop called on a live handle eventually resolves.
C9_StopEventuallyResolves ==
    \A i \in 1..MaxStops :
        []((i \in RealStops) => <>(i \in DOMAIN stops /\ stops[i].pc = "done"))

\* C10: every stop that found a handle has written the stop command to the
\* input stream of its process, once per stop.
C10_StopCommandWritten ==
    \A p \in ProcIds :
        /\ \A k \in DOMAIN procStdin[p] : procStdin[p][k] = StopCommand
        /\ Len(procStdin[p]) = Cardinality({i \in RealStops : stops[i].proc = p})

----------------------------------------------------------------------------
(***************************************************************************)
(* Properties of shutdown                                                  *)
(***************************************************************************)

\* the stopHytaleServer calls made by cleanup()
CleanupStops == {i \in DOMAIN stops : stops[i].caller = "cleanup"}

\* C11: on a termination request the shutdown steps happen in order: the
\* pending debounce timer is cancelled no later than the watcher stop
\* begins, stop() is invoked only once the watcher has stopped, and the
\* process exits only once a stop() invoked by the shutdown has resolved.
C11_ShutdownInOrder ==
    /\ []((CleanupStops /= {}) => ~WatcherDelivers)
    /\ []((exitCode = CleanupExitCode) =>
            \E i \in CleanupStops : stops[i].pc = "done")
    /\ [][(watching = "active" /\ watching' = "closing") => LiveTimers' = {}]_vars

C11_Witness ==
    /\ exitCode = CleanupExitCode
    /\ watching = "closed"
    /\ \E i \in CleanupStops \cap RealStops : stops[i].pc = "done"
    /\ burstLen > 0

\* the cleanup invocations that called stopWatcher
WatcherStops == {c \in DOMAIN cleanups : cleanups[c].watcherStop}

\* C12: a termination request delivered while a shutdown is already under
\* way does not re-enter it: per session the watcher stop and stop() are each
\* started at most once and the stop command is written at most once.
C12_ShutdownNotReentered ==
    /\ Cardinality(WatcherStops) <= 1
    /\ Cardinality(CleanupStops) <= 1
    /\ \A p \in ProcIds : Len(procStdin[p]) <= 1

\* C13: running the shutdown sequence a second time ends where running it
\* once ends: whenever the session has terminated through cleanup(), after
\* one request or after two, no debounce timer is pending, no watcher is
\* held or delivering, no supervised process is alive and the handle is
\* clear, and no invocation of cleanup() has ended in an error: each is
\* suspended at one of its awaits or has returned.
C13_ShutdownIdempotent ==
    (exitCode = CleanupExitCode) =>
        /\ LiveTimers = {}
        /\ ~watcher
        /\ ~WatcherDelivers
        /\ Alive = {}
        /\ serverProcess = NoProc
        /\ \A c \in DOMAIN cleanups : cleanups[c].pc \in {"await_watcher", "await_stop", "done"}

\* C14: every termination request received while the session is running or
\* rebuilding is followed, eventually, by the exit of the session, whatever
\* the supervised process does.
C14_RequestLeadsToExit == [](cleanups /= <<>> => <>(exitCode /= NotExited))

\* the session has exited through cleanup() although the server process
\* ignored the terminate signal: it took the forced kill to end it
C14_Witness ==
    /\ exitCode = CleanupExitCode
    /\ cleanups /= <<>>
    /\ \E p \in ProcIds :
          /\ procSignals[p] = <<"SIGTERM", "SIGKILL">>
          /\ procState[p] = "exited"

----------------------------------------------------------------------------
(***************************************************************************)
(* Properties of failures                                                  *)
(***************************************************************************)

\* no supervised process was ever created
NeverLaunched == \A p \in ProcIds : procState[p] = "unborn"

\* C15: once the initial build has failed the session has terminated with a
\* nonzero exit status, has published no artifact and has launched no
\* supervised process.
C15_InitialBuildFailureIsFatal ==
    (startup.build = "failed") =>
        /\ exitCode = FatalExitCode
        /\ FatalExitCode /= 0
        /\ startup.publish = "none"
        /\ pubOut.result = "none"
        /\ modsDir = {}
        /\ startup.launch = "none"
        /\ NeverLaunched

C15_Witness == startup.build = "failed" /\ pc = "exited"

\* C16: a publish failure in the initial build phase terminates the session
\* with a nonzero status before anything is launched; a publish failure in a
\* watch-triggered rebuild leaves the session running (until a termination
\* request ends it).
C16_PublishFailureByPhase ==
    /\ (startup.publish = "failed") =>
            /\ exitCode = FatalExitCode
            /\ startup.launch = "none"
            /\ NeverLaunched
    /\ (lastRebuild = "publish_failed" /\ cleanups = <<>>) =>
            /\ Live
            /\ pc = "running"
            /\ WatcherDelivers

C16_Witness ==
    /\ startup.publish = "ok"
    /\ lastRebuild = "publish_failed"
    /\ cleanups = <<>>
    /\ InFlight = 0

\* the last watch-triggered rebuild ended in a build or publish error
RebuildFailed == lastRebuild \in {"build_failed", "publish_failed"}

\* C17: after a watch-triggered rebuild has failed, and with no rebuild in
\* flight and no termination request, the session is running with the
\* rebuild flag false and the watcher active, so that the next change event
\* is not dropped and arms a debounce timer.
C17_FailedRebuildRecovers ==
    (RebuildFailed /\ InFlight = 0 /\ cleanups = <<>>) =>
        /\ Live
        /\ pc = "running"
        /\ ~isRebuilding
        /\ ~DropEvent
        /\ watcher
        /\ watching = "active"

\* a new rebuild attempt is under way after a failed one
C17_Witness ==
    /\ RebuildFailed
    /\ cleanups = <<>>
    /\ building = 1
    /\ isRebuilding
    /\ lastStart.burst > 0

\* a pre-check found the configuration, the Gradle wrapper or the server
\* files missing
ConfigurationFailed == startup.check \in PreChecks \ {"ok"}

\* the errors that devCommand's catch block turns into process.exit(1)
FatalCause ==
    \/ ConfigurationFailed
    \/ startup.build = "failed"
    \/ startup.publish = "failed"
    \/ startup.launch = "threw"

\* C18: the session exits with a nonzero status only after a configuration
\* error, an initial-phase build or publish error, or a launch failure; a
\* session that exits after a termination request exits with status 0; and a
\* session never exits because a watch-triggered rebuild failed.
C18_ExitStatusByCause ==
    /\ (~Live /\ exitCode /= 0) => FatalCause
    /\ (~Live /\ cleanups /= <<>>) => exitCode = 0
    /\ ~Live => (FatalCause \/ cleanups /= <<>>)

\* the errors behind a nonzero exit, the watcher's start failure included
FatalCauseOrWatch == FatalCause \/ startup.watch = "failed"

\* C18, amended: the session exits with a nonzero status only after a
\* configuration error, an initial-phase build or publish error, a launch
\* failure or a failure to start the watcher; a session that exits after a
\* termination request exits with status 0; and a session never exits
\* because a watch-triggered rebuild failed.
C18_ExitStatusByCauseOrWatch ==
    /\ (~Live /\ exitCode /= 0) => FatalCauseOrWatch
    /\ (~Live /\ cleanups /= <<>>) => exitCode = 0
    /\ ~Live => (FatalCauseOrWatch \/ cleanups /= <<>>)

\* a session built, published and launched, and ended with a nonzero status
\* because the watcher could not be started
C18_Witness ==
    /\ ~Live
    /\ exitCode = FatalExitCode
    /\ startup.publish = "ok"
    /\ startup.launch = "ok"
    /\ startup.watch = "failed"

\* C19: a launch of the supervised process that fails, because execa throws
\* or because the executable cannot be spawned, ends the session with a
\* nonzero exit status and the session is never running.
C19_LaunchFailureIsFatal ==
    (startup.launch \in LaunchOutcomes \ {"ok"}) =>
        /\ exitCode = FatalExitCode
        /\ pc /= "running"

\* a step of a rebuild sequence: the timer callback starts, its build
\* settles, its publish copies or its publish settles
RebuildStep ==
    \/ building' /= building
    \/ publishing' /= publishing
    \/ publishing > 0 /\ pubOut' /= pubOut

\* C20: no step of a rebuild sequence, successful or failed, changes the
\* process handle or anything else the supervisor holds; a session creates
\* at most one supervised process and stops it only from its shutdown paths.
C20_RebuildLeavesServerAlone ==
    /\ [][RebuildStep => UNCHANGED supVars]_vars
    /\ [](Cardinality({p \in ProcIds : procState[p] /= "unborn"}) <= 1)
    /\ [](\A i \in DOMAIN stops : stops[i].caller \in {"cleanup", "fatal"})

C20_Witness ==
    /\ lastRebuild = "ok"
    /\ RebuildFailed = FALSE
    /\ startup.publish = "ok"
    /\ pubOut.result = "ok"
    /\ InFlight = 0
    /\ serverProcess \in Alive
    /\ stops = <<>>

----------------------------------------------------------------------------
(***************************************************************************)
(* Properties of the publisher                                             *)
(***************************************************************************)

\* the files of the build output directory that may be published
Candidates == {buildDir[k] : k \in {j \in DOMAIN buildDir : IsArtifact(buildDir[j].name)}}

\* C21: the artifact copied is the eligible file with the most recent
\* modification time and, among those of equal time, the one whose name is
\* lexicographically last, whatever the order of the directory listing.
C21_SelectsNewest ==
    LET order == <<"-sources", ".jar", ".pom", "a", "b">>
        rank(t) == CHOOSE k \in DOMAIN order : order[k] = t
        before(x, y) ==
            \E k \in 1..(Len(y)) :
                /\ \A j \in 1..(k - 1) : j <= Len(x) /\ x[j] = y[j]
                /\ (k > Len(x) \/ rank(x[k]) < rank(y[k]))
        newer(f, g) == \/ f.mtime > g.mtime
                       \/ f.mtime = g.mtime /\ before(g.name, f.name)
    IN  (pubOut.result = "ok") =>
            \A g \in Candidates \ {pubOut.selected} : newer(pubOut.selected, g)

\* C29: neither copyJarToMods nor `hyt build` ever selects a file whose name
\* carries the sources suffix, and when the build output directory holds no
\* eligible artifact the publication fails, selects nothing and leaves the
\* mods directory as it found it; `hyt build` then exits with its error
\* status.
C29_NoSourcesNoArtifactNoCopy ==
    (pubOut.result /= "none") =>
        /\ ~Includes(pubOut.selected.name, "-sources")
        /\ (Candidates = {}) =>
                /\ pubOut.result = "error"
                /\ pubOut.selected = NoFile
                /\ modsDir = pubOut.modsBefore
                /\ pc = "exited" => exitCode = BuildExitError

C29_Witness ==
    /\ pubOut.result = "error"
    /\ Candidates = {}
    /\ \E k \in DOMAIN buildDir :
           IsAnyJar(buildDir[k].name) /\ Includes(buildDir[k].name, "-sources")
    /\ modsDir /= {}

----------------------------------------------------------------------------
(***************************************************************************)
(* Properties of startup                                                   *)
(***************************************************************************)

\* C22: when the initial build is not skipped, the publish step is reached
\* only after a successful build, the supervised process is launched only
\* after a successful build and a successful publish, and the session is
\* running only after the launch.
C22_StartupOrder ==
    /\ opts.initialBuild =>
          /\ (startup.publish /= "none") => startup.build = "ok"
          /\ (startup.launch /= "none" \/ ~NeverLaunched) =>
                 /\ startup.build = "ok"
                 /\ startup.publish = "ok"
                 /\ lastRebuild = "none" => modsDir /= {}
    /\ (pc = "running") => (startup.launch /= "none" /\ ~NeverLaunched)

C22_Witness ==
    /\ opts.initialBuild
    /\ pc = "running"
    /\ startup.launch = "ok"
    /\ serverProcess \in Alive
    /\ lastRebuild = "none"

\* C23: at most one debounce timer is pending (neither fired nor
\* cancelled) in any reachable state, and it is the one rebuildTimeout
\* holds: an accepted change event cancels the timer armed before it.
C23_AtMostOnePendingTimer ==
    /\ Cardinality(LiveTimers) <= 1
    /\ LiveTimers \subseteq {rebuildTimeout}

\* a second event of a burst has replaced the timer of the first
C23_Witness ==
    /\ burstLen >= 2
    /\ Cardinality(LiveTimers) = 1
    /\ firedInBurst = 0

----------------------------------------------------------------------------
(***************************************************************************)
(* Properties of launch and restart                                        *)
(***************************************************************************)

\* C24: a launch made while a handle exists has completed the stop of the
\* existing process by the time it has spawned the new one: the stop has
\* resolved and the process it stopped has exited.
C24_LaunchCompletesStop ==
    \A i \in RealStops :
        (stops[i].caller = "launch") =>
            /\ stops[i].pc = "done"
            /\ procState[stops[i].proc] = "exited"

----------------------------------------------------------------------------
(***************************************************************************)
(* Properties of the session's modes                                       *)
(***************************************************************************)

\* C25: once a termination request has been received no rebuild sequence
\* starts: no step taken after cleanup() was called invokes the build.
C25_NoRebuildAfterRequest == [][(cleanups /= <<>>) => building' <= building]_vars

\* C26: when the initial build is skipped no build is invoked before the
\* launch, and an artifact has been published by the time the session is
\* running if and only if the build output directory held an eligible
\* artifact when the session started.
C26_ResumePublishesPriorArtifact ==
    (~opts.initialBuild /\ pc = "running" /\ lastRebuild = "none") =>
        /\ startup.build = "none"
        /\ (modsDir /= {}) <=> (Candidates /= {})

\* C27: the launch returns without waiting for the supervised process to
\* exit: the step that spawns it at startup ends with the process alive and,
\* unless the watcher's start fails, with the session running and the
\* watcher started if asked for.
C27_LaunchReturnsAtOnce ==
    [][(startup.launch = "none" /\ startup'.launch = "ok") =>
          /\ serverProcess' /= NoProc
          /\ procState'[serverProcess'] = "alive"
          /\ startup'.watch /= "failed" =>
                /\ pc' = "running"
                /\ watcher' = opts.watch]_vars

C27_Witness ==
    /\ startup.launch = "ok"
    /\ pc = "running"
    /\ watcher
    /\ serverProcess \in Alive
    /\ cleanups = <<>>
    /\ burstLen > 0

\* C28: in a session without --watch no watcher is started, no debounce
\* timer is armed and no rebuild sequence runs.
C28_NoWatchNoRebuild ==
    (~opts.watch) =>
        /\ ~watcher
        /\ watching = "none"
        /\ LiveTimers = {}
        /\ rebuildTimeout = NoTimer
        /\ burstLen = 0
        /\ ~isRebuilding
        /\ InFlight = 0
        /\ lastRebuild = "none"
        /\ lastStart.burst = 0

C28_Witness ==
    /\ ~opts.watch
    /\ startup.launch = "ok"
    /\ exitCode = CleanupExitCode
    /\ \E i \in CleanupStops \cap RealStops : stops[i].pc = "done"

\* a process is spawned in this step
Spawns == \E p \in ProcIds : procState[p] = "unborn" /\ procState'[p] /= "unborn"

\* C30: restart runs stop to completion, then the delay, then launch: in the
\* step in which a restart launches and returns (a launch that throws makes
\* the restart reject instead), its stop has resolved, the process that stop
\* awaited has exited and the stop left the handle cleared, and after the
\* step the handle holds the newly spawned process.
C30_RestartStopsThenLaunches ==
    [][\A r \in DOMAIN restarts :
          (restarts[r].pc = "delay" /\ restarts'[r].pc = "done") =>
              LET st == stops[restarts[r].stop] IN
              /\ st.pc = "done"
              /\ st.handleAtEnd = NoProc
              /\ (st.proc /= NoProc) => procState[st.proc] = "exited"
              /\ Spawns =>
                    /\ serverProcess' /= NoProc
                    /\ procState[serverProcess'] = "unborn"
                    /\ procState'[serverProcess'] \in {"alive", "failing"}
              /\ ~Spawns => UNCHANGED <<serverProcess, procState>>]_vars

C30_Witness ==
    \E r \in DOMAIN restarts :
        /\ restarts[r].pc = "done"
        /\ stops[restarts[r].stop].proc /= NoProc
        /\ stops[restarts[r].stop].pc = "done"
        /\ serverProcess \in Alive
        /\ Cardinality(Alive) = 1

\* the processes that have been spawned and have ended
Exited == {p \in ProcIds : procState[p] = "exited"}

\* the most recently launched process, NoProc before the first launch
LastLaunched ==
    IF \A p \in ProcIds : procState[p] = "unborn" THEN NoProc
    ELSE CHOOSE p \in ProcIds :
            /\ procState[p] /= "unborn"
            /\ \A q \in ProcIds : procState[q] /= "unborn" => q <= p

\* C31: once the exit of the supervised process has been observed the handle
\* is none: the handle never names a process that has ended, and when every
\* launched process has ended on its own isServerRunning is false and a
\* later stop takes the early return.
C31_ExitClearsHandle ==
    /\ serverProcess \notin Exited
    /\ (Exited /= {} /\ \A p \in ProcIds : procState[p] \in {"unborn", "exited"}) =>
          /\ serverProcess = NoProc
          /\ ~isServerRunning
          /\ StopIsNoop(serverProcess)

C31_Witness ==
    /\ Exited /= {}
    /\ \A p \in ProcIds : procSignals[p] = <<>> /\ procStdin[p] = <<>>
    /\ \E i \in DOMAIN stops :
          /\ stops[i].proc = NoProc
          /\ stops[i].pc = "done"
          /\ \A j \in DOMAIN stops : stops[j].proc = NoProc
    /\ ~isServerRunning

\* C32: a stop called while the handle is none does nothing: its invocation
\* has no grace-period timer, has sent no signal, has written no stop
\* command and left the handle none; the step that makes the call changes
\* neither the handle nor any process's stdin, signals or killed flag.
C32_StopWithoutHandleIsNoop ==
    /\ [](\A i \in DOMAIN stops :
            stops[i].proc = NoProc =>
                /\ stops[i].timer = "none"
                /\ stops[i].sent = <<>>
                /\ stops[i].pc = "done"
                /\ stops[i].handleAtEnd = NoProc)
    /\ [][(/\ Len(stops') = Len(stops) + 1
           /\ stops'[Len(stops')].proc = NoProc) =>
            /\ serverProcess = NoProc
            /\ UNCHANGED <<serverProcess, procState, procKilled,
                           procSignals, procStdin>>]_vars

C32_Witness ==
    \E i \in DOMAIN stops :
        /\ stops[i].proc = NoProc
        /\ stops[i].caller = "api"
        /\ Exited /= {}
        /\ i > 1

\* C33: the handle is cleared and signals are sent only for the process the
\* handle refers to: while the most recently launched process is running
\* and no stop was called for it, the handle names it, and every signal a
\* stop invocation sent went to the process that invocation was called for.
C33_HandleBelongsToCurrent ==
    /\ (/\ LastLaunched /= NoProc
        /\ procState[LastLaunched] \in {"alive", "failing"}
        /\ \A i \in DOMAIN stops : stops[i].proc /= LastLaunched) =>
          serverProcess = LastLaunched
    /\ \A i \in DOMAIN stops :
          \A k \in DOMAIN stops[i].sent : stops[i].sent[k][2] = stops[i].proc

\* C34: whenever no rebuild sequence is executing the rebuild flag is false
\* and the next change event is not dropped; the step that ends a rebuild
\* sequence, however it ends, leaves the flag false.
C34_FlagResetAfterEveryRebuild ==
    /\ [](InFlight = 0 => (~isRebuilding /\ ~DropEvent))
    /\ [][(InFlight > 0 /\ InFlight' = 0) => ~isRebuilding']_vars

\* a rebuild whose build succeeded and whose publication failed is over, and
\* a later change event has armed a new debounce timer
C34_Witness ==
    /\ lastRebuild = "publish_failed"
    /\ InFlight = 0
    /\ ~isRebuilding
    /\ LiveTimers /= {}

\* C35: the publisher runs only after a successful build: a publication in
\* flight in a rebuild sequence follows a build that succeeded, and the
\* initial publication is reached only with the initial build succeeded.
C35_PublishOnlyAfterBuildSuccess ==
    /\ publishing > 0 => lastRebuild = "built"
    /\ pc = "publish" => startup.build = "ok"
    /\ startup.publish /= "none" => startup.build = "ok"
    /\ (startup.build = "failed" /\ lastRebuild = "none") => modsDir = {}

\* the initial build and publication succeeded, a later rebuild's build
\* failed, and the only artifact copied is the initial one
C35_Witness ==
    /\ startup.publish = "ok"
    /\ lastRebuild = "build_failed"
    /\ InFlight = 0
    /\ pubOut.result = "ok"
    /\ Cardinality(modsDir) = 1

\* C36: a termination request received while a rebuild is in flight starts
\* the shutdown in the same step (the timer is cancelled, the watcher is
\* told to stop or, without a watcher, the process stop is called), with the
\* rebuild flag still true; afterwards a cleanup waits only for the watcher
\* to close or for the process to end, never for the rebuild, and a cleanup
\* that got past both has ended the session.
C36_ShutdownIgnoresRebuild ==
    /\ [][(Len(cleanups') = Len(cleanups) + 1 /\ isRebuilding) =>
            /\ isRebuilding'
            /\ InFlight' = InFlight
            /\ \A t \in TimerIds : timers'[t] = Dead
            /\ watcher => watching' \in {"closing", "closed"}
            /\ ~watcher => Len(stops') = Len(stops) + 1]_vars
    /\ [](\A c \in DOMAIN cleanups :
            /\ cleanups[c].pc \in {"await_watcher", "await_stop", "done"}
            /\ (cleanups[c].pc = "await_watcher" /\ Live) => watching = "closing"
            /\ (cleanups[c].pc = "await_stop" /\ Live) =>
                  /\ stops[cleanups[c].stop].pc = "await"
                  /\ procState[stops[cleanups[c].stop].proc] /= "exited"
            /\ cleanups[c].pc = "done" => exitCode = CleanupExitCode)

\* the session has ended through the whole shutdown sequence (watcher
\* stopped, process stopped and gone) while the rebuild is still building
C36_Witness ==
    /\ exitCode = CleanupExitCode
    /\ isRebuilding
    /\ building = 1
    /\ watching = "closed"
    /\ \E c \in DOMAIN cleanups :
          /\ cleanups[c].pc = "done"
          /\ cleanups[c].watcherStop
          /\ stops[cleanups[c].stop].proc /= NoProc
          /\ procState[stops[cleanups[c].stop].proc] = "exited"

\* C37: a session that has exited with a nonzero status holds no pending
\* debounce timer and no started watcher, its catch block called stop and
\* the stop resolved before the exit, and no supervised process is attached
\* to the handle or still running; while that stop is pending the session
\* has not exited.
C37_FatalExitAfterStop ==
    /\ (exitCode = FatalExitCode) =>
          /\ LiveTimers = {}
          /\ ~watcher
          /\ watching \in {"none", "closed"}
          /\ serverProcess = NoProc
          /\ \A p \in ProcIds : procState[p] \in {"unborn", "exited"}
          /\ \E i \in DOMAIN stops :
                /\ stops[i].caller = "fatal"
                /\ stops[i].pc = "done"
                /\ stops[i].handleAtEnd = NoProc
    /\ (pc = "fatal_stop") =>
          /\ Live
          /\ \E i \in DOMAIN stops :
                stops[i].caller = "fatal" /\ stops[i].pc = "await"

\* the watcher's start failed after the launch, the catch block's stop ran
\* its grace period out, the process ended and only then the session exited
C37_Witness ==
    /\ exitCode = FatalExitCode
    /\ pc = "exited"
    /\ \E i \in DOMAIN stops :
          /\ stops[i].caller = "fatal"
          /\ stops[i].proc /= NoProc
          /\ stops[i].timer = "fired"
          /\ procState[stops[i].proc] = "exited"
          /\ procSignals[stops[i].proc] /= <<>>

\* the supervised process ends in this step
ServerExits == \E p \in ProcIds : procState[p] /= "exited" /\ procState'[p] = "exited"

\* C38: the supervised process ending on its own does not end the session:
\* the step in which it ends, with no termination request received, leaves
\* the session running and alive and touches neither the watcher nor the
\* debounce timer nor a rebuild in flight; and a running session with no
\* termination request has its watcher active whatever became of the
\* process, so later change events are delivered and not dropped once no
\* rebuild is in flight.
C38_ServerExitKeepsSession ==
    /\ [][(ServerExits /\ pc = "running" /\ cleanups = <<>>) =>
            /\ exitCode' = NotExited
            /\ UNCHANGED <<pc, exitCode, watcher, watching, timers, rebuildTimeout,
                           isRebuilding, building, publishing, cleanups>>]_vars
    /\ []((pc = "running" /\ cleanups = <<>>) =>
            /\ Live
            /\ opts.watch => (watcher /\ watching = "active" /\ WatcherDelivers)
            /\ InFlight = 0 => ~DropEvent)

\* the server has ended with no stop called, and the session is running
\* with a debounce timer pending after an earlier rebuild completed
C38_Witness ==
    /\ Exited /= {}
    /\ stops = <<>>
    /\ serverProcess = NoProc
    /\ pc = "running"
    /\ Live
    /\ watching = "active"
    /\ lastRebuild = "ok"
    /\ LiveTimers /= {}

\* C39: no rebuild sequence runs during the initial build phase or before
\* the supervised process has been launched: while the session has not
\* reached the launch there is no watcher, no debounce timer and no rebuild
\* in flight, and a watcher, a timer or a rebuild exists only after the
\* launch and, unless the initial build was skipped, after a successful
\* initial build and publish.
C39_NoRebuildBeforeLaunch ==
    /\ pc \in {"start", "build", "publish"} =>
          /\ ~watcher
          /\ watching = "none"
          /\ LiveTimers = {}
          /\ rebuildTimeout = NoTimer
          /\ InFlight = 0
          /\ ~isRebuilding
    /\ (watching /= "none" \/ LiveTimers /= {} \/ InFlight > 0 \/ burstLen > 0) =>
          /\ startup.launch \in {"ok", "spawn_failed"}
          /\ ~NeverLaunched
          /\ opts.initialBuild => (startup.build = "ok" /\ startup.publish = "ok")

\* a rebuild is building in a session that built, published and launched
C39_Witness ==
    /\ opts.initialBuild
    /\ startup.build = "ok"
    /\ startup.publish = "ok"
    /\ startup.launch = "ok"
    /\ building = 1
    /\ lastRebuild = "none"

----------------------------------------------------------------------------
(***************************************************************************)
(* Properties of downloadFile                                              *)
(***************************************************************************)

\* the chain follows no further redirect: a call was entered with no budget
\* left, a call ended otherwise, the body of a 200 response is being copied,
\* or the server leaves the GET unanswered
RedirectChainEnded ==
    \/ download.stage \in {"exhausted", "over", "streaming"}
    \/ download.stage = "requesting" /\ download.server[download.url] = NoAnswer

\* C40: downloadFile issues at most maxRedirects requests; the budget of the
\* current call is the caller's less the redirects followed; the caller's
\* promise is rejected for too many redirects exactly when the budget has
\* reached zero; and on any server, a redirect loop included, the chain of
\* redirects comes to an end.
C40_RedirectChainTerminates ==
    /\ [](download.requests <= download.initial)
    /\ [](download.budget =
            download.initial - download.requests +
              (IF download.stage \in {"idle", "exhausted"} THEN 0 ELSE 1))
    /\ [](download.result = "too_many_redirects" <=>
            (download.stage /= "idle" /\ download.budget = 0))
    /\ <>RedirectChainEnded
====
